---- MODULE Spec2Model ----
(***************************************************************************)
(* Model of the UnrealIRCd JSON-RPC bridge, backend/rpc/client.go:         *)
(* one RPCClient object, the goroutines that run call() on it, the        *)
(* receive goroutine started by each successful Connect, Disconnect, and   *)
(* the daemon at the other end of the transport.                           *)
(*                                                                         *)
(* c.mutex is a sync.RWMutex.  Every Lock()..Unlock() section of the code  *)
(* is one action (it blocks on nothing but the mutex).  The only section   *)
(* that is split is the RLock()..RUnlock() around conn.WriteJSON in call,  *)
(* because several callers can be inside it at once; a caller inside it    *)
(* has pc = "writing", and every Lock() section is guarded by NoReaders.   *)
(***************************************************************************)
EXTENDS Integers, Naturals, Sequences, FiniteSets, TLC

\* ---- bounds ----
NCallers == 2       \* goroutines that run call()
MaxReqID == 3       \* calls started over the life of the client
MaxConn == 1        \* successful dials over the life of the client

Callers == 1..NCallers
IDs == 1..MaxReqID

\* a nil *websocket.Conn / net.Conn
Nil == 0

\* the method each calling goroutine invokes: odd ones run GetNetworkInfo
\* (call with a result pointer), even ones KickUser (call with result = nil).
\* authenticate, the only user of "user.login", has no caller.
MethodOf(p) == IF p % 2 = 1 THEN "stats.get" ELSE "channel.kick"

\* whether the wrapper passes call a result pointer (KickUser passes nil)
HasResult(m) == m = "stats.get"

\* what a decoded RPCResponse carries: a Result, a Result that does not
\* unmarshal into the caller's structure, an Error, neither, or both
Kinds == {"result", "badresult", "error", "empty", "both"}
Frames == [id : IDs, kind : Kinds]
NoFrame == [id |-> 0, kind |-> "none"]

VARIABLES
  kind,          \* "ws" or "unix": which branch of Connect c.url selects
  conn,          \* c.conn: Nil or the connection it points to
  socketConn,    \* c.socketConn
  isSocket,      \* c.isSocket
  reqID,         \* c.reqID
  pending,       \* c.pending: request ID -> response channel
  chans,         \* the response channels made by call, by the ID they were made for
  transport,     \* the connections dialed so far, in order: "open" or "closed"
  loop,          \* the receive goroutine started for each connection
  call,          \* the goroutines running call()
  first,         \* history: the method of the first request frame written to each connection
  rleak,         \* a goroutine panicked inside RLock()..RUnlock()
  connectResult, \* what the last Connect returned
  torn,          \* history: Disconnect has returned and no Connect has succeeded since
  resolvers,     \* history: which steps resolved the pending call of each ID
  fault          \* history: runtime panics on channels

\* the web panel's server process (package main), which owns the client
VARIABLES
  config,        \* config.UnrealRPCURL, config.UnrealRPCUsername, config.UseMockData
  rpcClient,     \* the global rpcClient: "nil" or "client"
  initpc,        \* where main is: before, inside or after initRPCClient
  http,          \* the goroutine serving one HTTP request
  wsock          \* the goroutine serving one /ws connection, its ticker and its peer

panelVars == <<config, rpcClient, initpc, http, wsock>>

clientVars == <<kind, conn, socketConn, isSocket, reqID, pending, chans, transport,
                loop, call, first, rleak, connectResult, torn, resolvers, fault>>

vars == <<kind, conn, socketConn, isSocket, reqID, pending, chans, transport,
          loop, call, first, rleak, connectResult, torn, resolvers, fault,
          config, rpcClient, initpc, http, wsock>>

\* ---- helpers ----
IdleCall == [pc |-> "idle", id |-> 0, method |-> "none", out |-> "none",
             got |-> 0, nw |-> 0, res |-> "untouched"]
NoLoop == [pc |-> "none", c |-> Nil, resp |-> NoFrame, ch |-> Nil, why |-> "none"]
NoChan == [made |-> FALSE, buf |-> <<>>, closed |-> FALSE]

\* no goroutine holds the read lock, so Lock() can be taken (a goroutine
\* that panicked between RLock() and RUnlock() holds it for ever)
NoReaders == rleak = FALSE /\ \A p \in Callers : call[p].pc # "writing"

\* c.reqID++
\* (faulty variant: the counter wraps around)
NextReqID_Wrap(r) == (r % 2) + 1
NextReqID(r) == r + 1

\* ch, exists := c.pending[id]
\* (faulty variant: the channel of some pending entry, whatever the ID)
Exists(pend, id) == id \in DOMAIN pend
Lookup_Any(pend, id) == IF DOMAIN pend = {} THEN Nil
                        ELSE pend[CHOOSE i \in DOMAIN pend : \A j \in DOMAIN pend : i >= j]
Lookup(pend, id) == IF id \in DOMAIN pend THEN pend[id] ELSE Nil

\* delete(c.pending, id)
\* (faulty variants: the whole table is cleared; nothing is deleted)
DeletePending_All(pend, id) == [i \in {} |-> Nil]
DeletePending_None(pend, id) == pend
DeletePending(pend, id) == [i \in DOMAIN pend \ {id} |-> pend[i]]

\* c.pending[id] = ch
\* (faulty variant: the entry is not in the table yet when the frame is sent)
Register_NotYet(pend, id, ch) == pend
Register(pend, id, ch) == [i \in DOMAIN pend \cup {id} |-> IF i = id THEN ch ELSE pend[i]]

\* c.conn != nil
IsConnected == conn # Nil

\* connections are numbered in the order they were dialed
Gens == DOMAIN transport

\* a channel is reachable while the table, a receive goroutine's local ch or
\* a call that has not handed back its goroutine refers to it; the garbage
\* collector frees it after that, and its history goes with it
Referenced(i, pend, lp, cl) ==
  \/ \E k \in DOMAIN pend : pend[k] = i
  \/ \E g \in DOMAIN lp : lp[g].ch = i
  \/ \E p \in Callers : cl[p].pc # "idle" /\ cl[p].id = i
SweepChans(chs, pend, lp, cl) ==
  [i \in IDs |-> IF Referenced(i, pend, lp, cl) THEN chs[i] ELSE NoChan]
SweepResolvers(rs, pend, lp, cl) ==
  [i \in IDs |-> IF Referenced(i, pend, lp, cl) THEN rs[i] ELSE {}]

\* NewRPCClient: the client just constructed
InitClient ==
  /\ kind \in {"ws", "unix"}
  /\ conn = Nil
  /\ socketConn = Nil
  /\ isSocket = FALSE
  /\ reqID = 0
  /\ pending = [i \in {} |-> Nil]
  /\ chans = [i \in IDs |-> NoChan]
  /\ transport = <<>>
  /\ loop = <<>>
  /\ call = [p \in Callers |-> IdleCall]
  /\ first = <<>>
  /\ rleak = FALSE
  /\ connectResult = "none"
  /\ torn = FALSE
  /\ resolvers = [i \in IDs |-> {}]
  /\ fault = {}

\* the server process before main has called initRPCClient
IdleHTTP == [pc |-> "idle", ep |-> "none", role |-> "", valid |-> TRUE,
             status |-> 0, body |-> "none", err |-> "none", bridge |-> 0]
IdleWS == [pc |-> "idle", open |-> FALSE, inbox |-> 0, tick |-> 0, ticks |-> 0,
           initial |-> FALSE, updates |-> 0, stats |-> "none"]
PanelIdle ==
  /\ rpcClient = "nil"
  /\ initpc = "start"
  /\ http = IdleHTTP
  /\ wsock = IdleWS

\* the client used on its own: the URL is the one that selects its
\* transport, the server process does not run
Init ==
  /\ InitClient
  /\ config = [url |-> kind, username |-> "rpcuser", UseMockData |-> FALSE]
  /\ PanelIdle


\* ---- Connect / Disconnect ----

\* Connect, connectWebSocket, connectUnixSocket: under Lock(), dial; on
\* success store the handle and start the receive goroutine.  No call of
\* authenticate follows the dial.
\* (faulty variant of Connect: the handle is stored and the receive goroutine
\* started before the dial error is looked at)
Connect_StoreBeforeCheck(ok) ==
  /\ NoReaders
  /\ connectResult' = IF ok THEN "ok" ELSE "failed"
  /\ torn' = IF ok THEN FALSE ELSE torn
  /\ transport' = Append(transport, IF ok THEN "open" ELSE "closed")
  /\ first' = Append(first, "none")
  /\ IF kind = "unix"
       THEN /\ socketConn' = Len(transport) + 1
            /\ isSocket' = TRUE
            /\ conn' = conn
            /\ loop' = Append(loop, [NoLoop EXCEPT !.pc = "scan",
                                                   !.c = Len(transport) + 1])
       ELSE /\ conn' = Len(transport) + 1
            /\ isSocket' = FALSE
            /\ socketConn' = socketConn
            /\ loop' = Append(loop, [NoLoop EXCEPT !.pc = "top"])
  /\ UNCHANGED <<kind, reqID, pending, chans, call, rleak, resolvers, fault>>

Connect(ok) ==
  /\ NoReaders
  /\ IF ~ok
       THEN /\ connectResult' = "failed"
            /\ UNCHANGED <<conn, socketConn, isSocket, transport, loop, first, torn>>
       ELSE /\ connectResult' = "ok"
            /\ torn' = FALSE
            /\ transport' = Append(transport, "open")
            /\ first' = Append(first, "none")
            /\ IF kind = "unix"
                 THEN /\ socketConn' = Len(transport) + 1
                      /\ isSocket' = TRUE
                      /\ conn' = conn
                      /\ loop' = Append(loop, [NoLoop EXCEPT !.pc = "scan",
                                                             !.c = Len(transport) + 1])
                 ELSE /\ conn' = Len(transport) + 1
                      /\ isSocket' = FALSE
                      /\ socketConn' = socketConn
                      /\ loop' = Append(loop, [NoLoop EXCEPT !.pc = "top"])
  /\ UNCHANGED <<kind, reqID, pending, chans, call, rleak, resolvers, fault>>

\* close(ch) for every channel of the pending table
CloseAll(chs, pend) ==
  [i \in IDs |-> IF \E k \in DOMAIN pend : pend[k] = i
                   THEN [chs[i] EXCEPT !.closed = TRUE]
                   ELSE chs[i]]

\* Disconnect: under Lock(), close and nil c.conn, close every pending
\* channel, replace the table by an empty one.  c.socketConn is not touched.
\* (faulty variant of Disconnect: the ID counter is set back to 0)
Disconnect_ResetCounter ==
  /\ NoReaders
  /\ IF conn # Nil
       THEN /\ transport' = [transport EXCEPT ![conn] = "closed"]
            /\ conn' = Nil
       ELSE UNCHANGED <<transport, conn>>
  /\ chans' = CloseAll(chans, pending)
  /\ fault' = fault \cup
       (IF \E k \in DOMAIN pending : chans[pending[k]].closed
          THEN {"close of closed channel"} ELSE {})
  /\ resolvers' = [i \in IDs |->
       IF \E k \in DOMAIN pending : pending[k] = i
         THEN resolvers[i] \cup {"drain"} ELSE resolvers[i]]
  /\ pending' = [i \in {} |-> Nil]
  /\ torn' = TRUE
  /\ reqID' = 0
  /\ UNCHANGED <<kind, socketConn, isSocket, loop, call, first, rleak,
                 connectResult>>
  /\ UNCHANGED panelVars

\* (faulty variant of Disconnect: c.conn.Close() is called without the nil check)
Disconnect_NoNilCheck ==
  /\ NoReaders
  /\ transport' = IF conn # Nil THEN [transport EXCEPT ![conn] = "closed"]
                  ELSE transport
  /\ conn' = Nil
  /\ chans' = CloseAll(chans, pending)
  /\ fault' = fault \cup
       (IF conn = Nil THEN {"nil pointer dereference"} ELSE {}) \cup
       (IF \E k \in DOMAIN pending : chans[pending[k]].closed
          THEN {"close of closed channel"} ELSE {})
  /\ resolvers' = [i \in IDs |->
       IF \E k \in DOMAIN pending : pending[k] = i
         THEN resolvers[i] \cup {"drain"} ELSE resolvers[i]]
  /\ pending' = [i \in {} |-> Nil]
  /\ torn' = TRUE
  /\ UNCHANGED <<kind, socketConn, isSocket, reqID, loop, call, first, rleak,
                 connectResult>>
  /\ UNCHANGED panelVars

Disconnect ==
  /\ NoReaders
  /\ IF conn # Nil
       THEN /\ transport' = [transport EXCEPT ![conn] = "closed"]
            /\ conn' = Nil
       ELSE UNCHANGED <<transport, conn>>
  /\ chans' = CloseAll(chans, pending)
  /\ fault' = fault \cup
       (IF \E k \in DOMAIN pending : chans[pending[k]].closed
          THEN {"close of closed channel"} ELSE {})
  /\ resolvers' = [i \in IDs |->
       IF \E k \in DOMAIN pending : pending[k] = i
         THEN resolvers[i] \cup {"drain"} ELSE resolvers[i]]
  /\ pending' = [i \in {} |-> Nil]
  /\ torn' = TRUE
  /\ UNCHANGED <<kind, socketConn, isSocket, reqID, loop, call, first, rleak,
                 connectResult>>
  /\ UNCHANGED panelVars

\* the daemon, or the network, closes a connection
PeerClose(g) ==
  /\ transport[g] = "open"
  /\ transport' = [transport EXCEPT ![g] = "closed"]
  /\ UNCHANGED <<kind, conn, socketConn, isSocket, reqID, pending, chans,
                 loop, call, first, rleak, connectResult, torn, resolvers, fault>>
  /\ UNCHANGED panelVars


\* ---- call ----

\* call, first Lock() section: take the next ID; without a connection return
\* "not connected"; otherwise make the response channel and register it.
\* (faulty variant of callBegin: the channel is registered before c.conn is checked)
callBegin_RegisterFirst(p) ==
  /\ call[p].pc = "idle"
  /\ NoReaders
  /\ reqID < MaxReqID
  /\ reqID' = NextReqID(reqID)
  /\ chans' = [chans EXCEPT ![reqID'] =
                 [made |-> TRUE, buf |-> <<>>, closed |-> FALSE]]
  /\ pending' = Register(pending, reqID', reqID')
  /\ call' = [call EXCEPT ![p] = [IdleCall EXCEPT
                 !.pc = IF conn = Nil THEN "done" ELSE "registered",
                 !.id = reqID', !.method = MethodOf(p),
                 !.out = IF conn = Nil THEN "not_connected" ELSE "none"]]
  /\ UNCHANGED <<kind, conn, socketConn, isSocket, transport, loop, first,
                 rleak, connectResult, torn, resolvers, fault>>
  /\ UNCHANGED panelVars

callBegin(p) ==
  /\ call[p].pc = "idle"
  /\ NoReaders
  /\ reqID < MaxReqID
  /\ reqID' = NextReqID(reqID)
  /\ IF conn = Nil
       THEN /\ call' = [call EXCEPT ![p] = [IdleCall EXCEPT
                          !.pc = "done", !.id = reqID', !.method = MethodOf(p),
                          !.out = "not_connected"]]
            /\ UNCHANGED <<pending, chans>>
       ELSE /\ call' = [call EXCEPT ![p] = [IdleCall EXCEPT
                          !.pc = "registered", !.id = reqID', !.method = MethodOf(p)]]
            /\ chans' = [chans EXCEPT ![reqID'] =
                           [made |-> TRUE, buf |-> <<>>, closed |-> FALSE]]
            /\ pending' = Register(pending, reqID', reqID')
  /\ UNCHANGED <<kind, conn, socketConn, isSocket, transport, loop, first,
                 rleak, connectResult, torn, resolvers, fault>>
  /\ UNCHANGED panelVars

\* call: RLock(), then c.conn.WriteJSON(req) begins.  c.conn is not checked
\* again: if Disconnect has set it to nil, WriteJSON dereferences a nil
\* *websocket.Conn and the goroutine panics with the read lock held.
\* The read lock does not keep two callers from writing at once: a write
\* that begins while another is in progress is a data race on the
\* connection, which the websocket library may detect (race = TRUE: it
\* panics, "concurrent write to websocket connection") or not.
callWriteBegin(p, race) ==
  /\ call[p].pc = "registered"
  /\ race => conn # Nil /\ \E q \in Callers \ {p} : call[q].pc = "writing"
  /\ IF conn = Nil
       THEN /\ call' = [call EXCEPT ![p].pc = "done", ![p].out = "panic_nilconn"]
            /\ rleak' = TRUE
       ELSE IF race
         THEN /\ call' = [call EXCEPT ![p].pc = "done", ![p].out = "panic_write"]
              /\ rleak' = TRUE
         ELSE /\ call' = [call EXCEPT ![p].pc = "writing"]
              /\ rleak' = rleak
  /\ UNCHANGED <<kind, conn, socketConn, isSocket, reqID, pending, chans, transport,
                 loop, first, connectResult, torn, resolvers, fault>>
  /\ UNCHANGED panelVars

\* call: WriteJSON returns, RUnlock().  A write to an open transport
\* succeeds; a write to a transport the peer has closed may still succeed
\* or fail.
callWriteEnd(p, ok) ==
  /\ call[p].pc = "writing"
  /\ transport[conn] = "open" => ok
  /\ IF ok
       THEN /\ first' = IF first[conn] = "none"
                          THEN [first EXCEPT ![conn] = call[p].method]
                          ELSE first
            /\ call' = [call EXCEPT ![p].pc = "waiting", ![p].nw = @ + 1]
       ELSE /\ first' = first
            /\ call' = [call EXCEPT ![p].pc = "senderr"]
  /\ UNCHANGED <<kind, conn, socketConn, isSocket, reqID, pending, chans, transport,
                 loop, rleak, connectResult, torn, resolvers, fault>>
  /\ UNCHANGED panelVars

\* call: the write failed: Lock(), delete(c.pending, reqID), return the error
\* (faulty variant of callSendFail: the request is sent again)
callSendFail_Retry(p) ==
  /\ call[p].pc = "senderr"
  /\ NoReaders
  /\ call' = [call EXCEPT ![p].pc = "registered"]
  /\ UNCHANGED <<kind, conn, socketConn, isSocket, reqID, pending, chans, transport,
                 loop, first, rleak, connectResult, torn, resolvers, fault>>
  /\ UNCHANGED panelVars

callSendFail(p) ==
  /\ call[p].pc = "senderr"
  /\ NoReaders
  /\ pending' = DeletePending(pending, call[p].id)
  /\ call' = [call EXCEPT ![p].pc = "done", ![p].out = "send_error"]
  /\ UNCHANGED <<kind, conn, socketConn, isSocket, reqID, chans, transport,
                 loop, first, rleak, connectResult, torn, resolvers, fault>>
  /\ UNCHANGED panelVars

\* what call returns for the value received from respCh: nil (the channel
\* was closed) faults at resp.Error; an Error object gives the RPC error;
\* a Result is unmarshaled when the caller gave a result pointer, and the
\* unmarshal error, if any, is returned; anything else is success
\* (faulty variants of Outcome: the Result is looked at before the Error;
\* the Result is unmarshaled without the resp.Result != nil test, and
\* json.Unmarshal of no data returns an error)
Outcome_ResultFirst(resp, m) ==
  IF resp = NoFrame THEN "panic"
  ELSE IF HasResult(m) /\ resp.kind = "badresult" THEN "decode_error"
  ELSE IF resp.kind \in {"result", "badresult", "both"} THEN "ok"
  ELSE IF resp.kind = "error" THEN "rpc_error"
  ELSE "ok"
Outcome_NoNilCheck(resp, m) ==
  IF resp = NoFrame THEN "panic"
  ELSE IF resp.kind \in {"error", "both"} THEN "rpc_error"
  ELSE IF HasResult(m) /\ resp.kind \in {"badresult", "empty"} THEN "decode_error"
  ELSE "ok"
Outcome(resp, m) ==
  IF resp = NoFrame THEN "panic"
  ELSE IF resp.kind \in {"error", "both"} THEN "rpc_error"
  ELSE IF HasResult(m) /\ resp.kind = "badresult" THEN "decode_error"
  ELSE "ok"

\* whether call has written into the caller's result
ResultAfter(resp, m) ==
  IF resp # NoFrame /\ HasResult(m) /\ resp.kind \in {"result", "badresult"}
    THEN "written" ELSE "untouched"

\* call: select, case resp := <-respCh
callRecv(p) ==
  /\ call[p].pc = "waiting"
  /\ LET ch == chans[call[p].id] IN
       /\ ch.buf # <<>> \/ ch.closed
       /\ LET resp == IF ch.buf # <<>> THEN Head(ch.buf) ELSE NoFrame IN
            /\ call' = [call EXCEPT ![p].pc = "done",
                                    ![p].out = Outcome(resp, call[p].method),
                                    ![p].res = ResultAfter(resp, call[p].method),
                                    ![p].got = resp.id]
            /\ chans' = [chans EXCEPT ![call[p].id].buf = <<>>]
  /\ UNCHANGED <<kind, conn, socketConn, isSocket, reqID, pending, transport,
                 loop, first, rleak, connectResult, torn, resolvers, fault>>
  /\ UNCHANGED panelVars

\* call: select, case <-ctx.Done() (why = "cancelled") or
\* case <-time.After(30 * time.Second) (why = "timeout"):
\* Lock(), delete(c.pending, reqID), return the error
callAbandon(p, why) ==
  /\ call[p].pc = "waiting"
  /\ NoReaders
  /\ pending' = DeletePending(pending, call[p].id)
  /\ resolvers' = IF Exists(pending, call[p].id)
                    THEN [resolvers EXCEPT ![call[p].id] = @ \cup {why}]
                    ELSE resolvers
  /\ call' = [call EXCEPT ![p].pc = "done", ![p].out = why]
  /\ UNCHANGED <<kind, conn, socketConn, isSocket, reqID, chans, transport,
                 loop, first, rleak, connectResult, torn, fault>>
  /\ UNCHANGED panelVars

callCancel(p) == callAbandon(p, "cancelled")
callTimeout(p) == callAbandon(p, "timeout")

\* call has returned; the goroutine is free to make another call
callReturn(p) ==
  /\ call[p].pc = "done"
  /\ call' = [call EXCEPT ![p] = IdleCall]
  /\ chans' = SweepChans(chans, pending, loop, call')
  /\ resolvers' = SweepResolvers(resolvers, pending, loop, call')
  /\ UNCHANGED <<kind, conn, socketConn, isSocket, reqID, pending, transport,
                 loop, first, rleak, connectResult, torn, fault>>
  /\ UNCHANGED panelVars


\* ---- the receive goroutines ----

\* ch <- resp on a channel of capacity 1: a send on a closed channel is a
\* runtime panic; otherwise the value goes into the free slot
ChanSend(chs, ch, resp) == [chs EXCEPT ![ch].buf = Append(@, resp)]

\* history: a response was put into channel ch
Delivered(rs, ch) ==
  [rs EXCEPT ![ch] = @ \cup (IF "response" \in @ THEN {"response again"}
                             ELSE {"response"})]

\* handleMessages, top of the loop: RLock(); conn := c.conn; RUnlock();
\* a nil conn ends the loop
handleMessagesTop(g) ==
  /\ loop[g].pc = "top"
  /\ loop' = [loop EXCEPT ![g] =
       IF conn = Nil THEN [@ EXCEPT !.pc = "exited", !.why = "nil"]
       ELSE [@ EXCEPT !.pc = "read", !.c = conn]]
  /\ UNCHANGED <<kind, conn, socketConn, isSocket, reqID, pending, chans, transport,
                 call, first, rleak, connectResult, torn, resolvers, fault>>
  /\ UNCHANGED panelVars

\* handleMessages: err := conn.ReadJSON(&response).  ReadJSON returns an
\* error when the connection is closed and also when the frame read is not
\* valid JSON for RPCResponse; any error breaks out of the loop.
\* f = NoFrame stands for a frame that does not decode.
handleMessagesRead(g, f) ==
  /\ loop[g].pc = "read"
  /\ IF transport[loop[g].c] # "open"
       THEN /\ f = NoFrame
            /\ loop' = [loop EXCEPT ![g].pc = "exited", ![g].why = "readerr"]
       ELSE IF f = NoFrame
         THEN loop' = [loop EXCEPT ![g].pc = "exited", ![g].why = "decode"]
         ELSE loop' = [loop EXCEPT ![g].pc = "claim", ![g].resp = f]
  /\ UNCHANGED <<kind, conn, socketConn, isSocket, reqID, pending, chans, transport,
                 call, first, rleak, connectResult, torn, resolvers, fault>>
  /\ UNCHANGED panelVars

\* handleMessages: Lock(); if the ID is pending, delete it and keep its
\* channel for the send that follows Unlock(); otherwise log and go on
\* (faulty variant: the entry is left in the table, as handleSocketMessages does)
handleMessagesClaim_NoDelete(g) ==
  /\ loop[g].pc = "claim"
  /\ NoReaders
  /\ IF Exists(pending, loop[g].resp.id)
       THEN loop' = [loop EXCEPT ![g].pc = "send",
                                 ![g].ch = Lookup(pending, loop[g].resp.id)]
       ELSE loop' = [loop EXCEPT ![g].pc = "top", ![g].resp = NoFrame]
  /\ UNCHANGED <<kind, conn, socketConn, isSocket, reqID, pending, chans, transport,
                 call, first, rleak, connectResult, torn, resolvers, fault>>
  /\ UNCHANGED panelVars

\* (faulty variant: a response whose ID is not pending ends the loop)
handleMessagesClaim_ExitOnUnmatched(g) ==
  /\ loop[g].pc = "claim"
  /\ NoReaders
  /\ IF Exists(pending, loop[g].resp.id)
       THEN /\ loop' = [loop EXCEPT ![g].pc = "send",
                                    ![g].ch = Lookup(pending, loop[g].resp.id)]
            /\ pending' = DeletePending(pending, loop[g].resp.id)
       ELSE /\ loop' = [loop EXCEPT ![g].pc = "exited", ![g].why = "unmatched"]
            /\ pending' = pending
  /\ UNCHANGED <<kind, conn, socketConn, isSocket, reqID, chans, transport,
                 call, first, rleak, connectResult, torn, resolvers, fault>>
  /\ UNCHANGED panelVars

handleMessagesClaim(g) ==
  /\ loop[g].pc = "claim"
  /\ NoReaders
  /\ IF Exists(pending, loop[g].resp.id)
       THEN /\ loop' = [loop EXCEPT ![g].pc = "send",
                                    ![g].ch = Lookup(pending, loop[g].resp.id)]
            /\ pending' = DeletePending(pending, loop[g].resp.id)
       ELSE /\ loop' = [loop EXCEPT ![g].pc = "top", ![g].resp = NoFrame]
            /\ pending' = pending
  /\ UNCHANGED <<kind, conn, socketConn, isSocket, reqID, chans, transport,
                 call, first, rleak, connectResult, torn, resolvers, fault>>
  /\ UNCHANGED panelVars

\* handleMessages: ch <- &response, a blocking send after Unlock()
handleMessagesSend(g) ==
  /\ loop[g].pc = "send"
  /\ LET ch == loop[g].ch IN
       IF chans[ch].closed
         THEN /\ fault' = fault \cup {"send on closed channel"}
              /\ loop' = [loop EXCEPT ![g].pc = "exited", ![g].why = "panic"]
              /\ UNCHANGED <<chans, resolvers>>
         ELSE /\ Len(chans[ch].buf) < 1
              /\ loop' = [loop EXCEPT ![g].pc = "top", ![g].resp = NoFrame,
                                      ![g].ch = Nil]
              /\ chans' = SweepChans(ChanSend(chans, ch, loop[g].resp),
                                     pending, loop', call)
              /\ resolvers' = SweepResolvers(
                                 Delivered(resolvers, ch),
                                 pending, loop', call)
              /\ fault' = fault
  /\ UNCHANGED <<kind, conn, socketConn, isSocket, reqID, pending, transport,
                 call, first, rleak, connectResult, torn>>
  /\ UNCHANGED panelVars

\* handleSocketMessages: scanner.Scan() and json.Unmarshal of the line.
\* Scan returns false when the socket is closed, which ends the loop; a line
\* that does not decode is logged and skipped (continue).
handleSocketMessagesScan(g, f) ==
  /\ loop[g].pc = "scan"
  /\ IF transport[loop[g].c] # "open"
       THEN /\ f = NoFrame
            /\ loop' = [loop EXCEPT ![g].pc = "exited", ![g].why = "readerr"]
       ELSE IF f = NoFrame
         THEN loop' = [loop EXCEPT ![g].why = "skipped"]
         ELSE loop' = [loop EXCEPT ![g].pc = "lookup", ![g].resp = f]
  /\ UNCHANGED <<kind, conn, socketConn, isSocket, reqID, pending, chans, transport,
                 call, first, rleak, connectResult, torn, resolvers, fault>>
  /\ UNCHANGED panelVars

\* handleSocketMessages: RLock(); ch, exists := c.pending[response.ID];
\* RUnlock().  The entry stays in the table.
handleSocketMessagesLookup(g) ==
  /\ loop[g].pc = "lookup"
  /\ loop' = [loop EXCEPT ![g].pc = "deliver",
                          ![g].ch = Lookup(pending, loop[g].resp.id)]
  /\ UNCHANGED <<kind, conn, socketConn, isSocket, reqID, pending, chans, transport,
                 call, first, rleak, connectResult, torn, resolvers, fault>>
  /\ UNCHANGED panelVars

\* handleSocketMessages: if exists { select { case ch <- &response: default: } }
handleSocketMessagesDeliver(g) ==
  /\ loop[g].pc = "deliver"
  /\ LET ch == loop[g].ch IN
       IF ch = Nil \/ (~chans[ch].closed /\ Len(chans[ch].buf) >= 1)
         THEN /\ loop' = [loop EXCEPT ![g].pc = "scan", ![g].resp = NoFrame,
                                      ![g].ch = Nil]
              /\ UNCHANGED <<chans, resolvers, fault>>
         ELSE IF chans[ch].closed
           THEN /\ fault' = fault \cup {"send on closed channel"}
                /\ loop' = [loop EXCEPT ![g].pc = "exited", ![g].why = "panic"]
                /\ UNCHANGED <<chans, resolvers>>
           ELSE /\ loop' = [loop EXCEPT ![g].pc = "scan", ![g].resp = NoFrame,
                                        ![g].ch = Nil]
                /\ chans' = SweepChans(ChanSend(chans, ch, loop[g].resp),
                                       pending, loop', call)
                /\ resolvers' = SweepResolvers(
                                   Delivered(resolvers, ch),
                                   pending, loop', call)
                /\ fault' = fault
  /\ UNCHANGED <<kind, conn, socketConn, isSocket, reqID, pending, transport,
                 call, first, rleak, connectResult, torn>>
  /\ UNCHANGED panelVars

\* ---- the system ----

Next ==
  \/ Len(transport) < MaxConn /\ (\E ok \in BOOLEAN : Connect(ok))
                               /\ UNCHANGED panelVars
  \/ Disconnect
  \/ \E g \in Gens : PeerClose(g)
  \/ \E p \in Callers : callBegin(p)
  \/ \E p \in Callers, race \in BOOLEAN : callWriteBegin(p, race)
  \/ \E p \in Callers, ok \in BOOLEAN : callWriteEnd(p, ok)
  \/ \E p \in Callers : callSendFail(p)
  \/ \E p \in Callers : callRecv(p)
  \/ \E p \in Callers : callCancel(p)
  \/ \E p \in Callers : callTimeout(p)
  \/ \E p \in Callers : callReturn(p)
  \/ \E g \in Gens : handleMessagesTop(g)
  \/ \E g \in Gens, f \in Frames \cup {NoFrame} : handleMessagesRead(g, f)
  \/ \E g \in Gens : handleMessagesClaim(g)
  \/ \E g \in Gens : handleMessagesSend(g)
  \/ \E g \in Gens, f \in Frames \cup {NoFrame} : handleSocketMessagesScan(g, f)
  \/ \E g \in Gens : handleSocketMessagesLookup(g)
  \/ \E g \in Gens : handleSocketMessagesDeliver(g)

Spec == Init /\ [][Next]_vars

\* the client over several connections: Connect may be called again, with
\* or without a Disconnect in between, while one goroutine makes calls
MaxRedial == 2      \* successful dials in SpecReconnect
\* the daemon answers with plain results in SpecReconnect
ResultFrames == {f \in Frames : f.kind = "result"}
NextReconnect ==
  \/ Len(transport) < MaxRedial /\ Connect(TRUE) /\ UNCHANGED panelVars
  \/ Disconnect
  \/ \E g \in Gens : PeerClose(g)
  \/ callBegin(1)
  \/ callWriteBegin(1, FALSE)
  \/ \E ok \in BOOLEAN : callWriteEnd(1, ok)
  \/ callSendFail(1)
  \/ callRecv(1)
  \/ callTimeout(1)
  \/ callReturn(1)
  \/ \E g \in Gens : handleMessagesTop(g)
  \/ \E g \in Gens, f \in ResultFrames \cup {NoFrame} : handleMessagesRead(g, f)
  \/ \E g \in Gens : handleMessagesClaim(g)
  \/ \E g \in Gens : handleMessagesSend(g)
  \/ \E g \in Gens, f \in ResultFrames \cup {NoFrame} : handleSocketMessagesScan(g, f)
  \/ \E g \in Gens : handleSocketMessagesLookup(g)
  \/ \E g \in Gens : handleSocketMessagesDeliver(g)

SpecReconnect == Init /\ [][NextReconnect]_vars


\* ---- the server process ----

\* what the environment can configure: UNREAL_RPC_URL ("" when unset,
\* "unix" for the local socket, anything else is a WebSocket URL),
\* UNREAL_RPC_USERNAME and USE_MOCK_DATA
Configs == [url : {"", "unix", "ws"}, username : {"", "rpcuser"},
            UseMockData : BOOLEAN]

\* Connect: c.url == "unix" || c.url == "" selects the UNIX socket
KindOf(url) == IF url = "unix" \/ url = "" THEN "unix" ELSE "ws"

InitPanel ==
  /\ InitClient
  /\ config \in Configs
  /\ kind = KindOf(config.url)
  /\ PanelIdle

\* what a bridge method returns to the server process: call returns
\* "not connected" when c.conn is nil; otherwise nil or one of its errors
BridgeOutcomes ==
  IF conn = Nil THEN {"not_connected"}
  ELSE {"ok", "send_error", "rpc_error", "decode_error", "timeout", "cancelled"}

\* config.UseMockData || rpcClient == nil
MockMode == config.UseMockData \/ rpcClient = "nil"

\* initRPCClient, the test of the configuration: without a URL, without a
\* user name or with mock data forced, mock mode is set and no client is made;
\* otherwise NewRPCClient
initRPCClientStart ==
  /\ initpc = "start"
  /\ IF config.url # "" /\ config.username # "" /\ ~config.UseMockData
       THEN /\ rpcClient' = "client"
            /\ initpc' = "connect"
            /\ config' = config
       ELSE /\ config' = [config EXCEPT !.UseMockData = TRUE]
            /\ initpc' = "done"
            /\ rpcClient' = rpcClient
  /\ UNCHANGED <<http, wsock>>
  /\ UNCHANGED clientVars

\* initRPCClient: rpcClient.Connect(ctx); on an error the client is dropped
\* and mock mode is set
initRPCClientConnect(ok) ==
  /\ initpc = "connect"
  /\ Connect(ok)
  /\ IF ok
       THEN /\ initpc' = "log"
            /\ UNCHANGED <<config, rpcClient>>
       ELSE /\ initpc' = "done"
            /\ rpcClient' = "nil"
            /\ config' = [config EXCEPT !.UseMockData = TRUE]
  /\ UNCHANGED <<http, wsock>>

\* initRPCClient: rpcClient.SendCopilotLog(ctx); its error is only logged
initRPCClientLog(out) ==
  /\ initpc = "log"
  /\ out \in BridgeOutcomes
  /\ initpc' = "done"
  /\ UNCHANGED <<config, rpcClient, http, wsock>>
  /\ UNCHANGED clientVars

\* the bridge-backed routes of main
Endpoints == {"stats", "health", "users", "channels", "channelUsers", "kick", "ban"}

\* the roles a request can carry in its context after authMiddleware
Roles == {"", "user", "moderator", "admin"}

\* main: the list given to requireRole on the route's subrouter
AllowedRoles(ep) ==
  IF ep \in {"kick", "ban"} THEN <<"moderator", "admin">>
  ELSE <<"user", "moderator", "admin">>

\* requireRole: for each allowed role in turn, the request passes if its
\* role is that role or is "admin"; when the loop ends, 403
\* (faulty variant: the role is not looked at)
RequireRole_AnyRole(allowed, role) ==
  \E i \in DOMAIN allowed : TRUE
RequireRole(allowed, role) ==
  \E i \in DOMAIN allowed : role = allowed[i] \/ role = "admin"

\* what each handler answers: 400 for a request it cannot read (no channel
\* name, a body that does not decode); the mock payload in mock mode,
\* without a bridge call; otherwise one bridge call, and on its error the
\* mock payload (stats, health, users, channels) or 500 (channel users,
\* kick, ban)
HandlerReply(ep, valid, mock, out) ==
  IF ep \in {"channelUsers", "kick", "ban"} /\ ~valid
    THEN [status |-> 400, body |-> "error", err |-> "none", bridge |-> 0]
  ELSE IF mock
    THEN [status |-> 200, body |-> "mock", err |-> "none", bridge |-> 0]
  ELSE IF out = "ok"
    THEN [status |-> 200, body |-> "live", err |-> out, bridge |-> 1]
  ELSE IF ep \in {"stats", "health", "users", "channels"}
    THEN [status |-> 200, body |-> "mock", err |-> out, bridge |-> 1]
  ELSE [status |-> 500, body |-> "error", err |-> out, bridge |-> 1]

\* a request for a bridge-backed route arrives, with the role authMiddleware
\* put into its context; the server listens only after initRPCClient.
\* Only a POST body can be unreadable: the route /{channel}/users does not
\* match an empty channel name.
httpRequest(ep, role, valid) ==
  /\ initpc = "done"
  /\ http.pc = "idle"
  /\ ep \in {"kick", "ban"} \/ valid
  /\ http' = [IdleHTTP EXCEPT !.pc = "guard", !.ep = ep, !.role = role,
                              !.valid = valid]
  /\ UNCHANGED <<config, rpcClient, initpc, wsock>>
  /\ UNCHANGED clientVars

\* the requireRole middleware of the route
httpRequireRole ==
  /\ http.pc = "guard"
  /\ http' = IF RequireRole(AllowedRoles(http.ep), http.role)
               THEN [http EXCEPT !.pc = "handler"]
               ELSE [http EXCEPT !.pc = "done", !.status = 403, !.body = "error"]
  /\ UNCHANGED <<config, rpcClient, initpc, wsock>>
  /\ UNCHANGED clientVars

\* the route's handler
httpHandler(out) ==
  /\ http.pc = "handler"
  /\ out \in BridgeOutcomes
  /\ LET r == HandlerReply(http.ep, http.valid, MockMode, out) IN
       http' = [http EXCEPT !.pc = "done", !.status = r.status, !.body = r.body,
                            !.err = r.err, !.bridge = r.bridge]
  /\ UNCHANGED <<config, rpcClient, initpc, wsock>>
  /\ UNCHANGED clientVars

\* the response has been written; the goroutine ends
httpDone ==
  /\ http.pc = "done"
  /\ http' = IdleHTTP
  /\ UNCHANGED <<config, rpcClient, initpc, wsock>>
  /\ UNCHANGED clientVars

\* ---- /ws ----

MaxTicks == 2      \* ticks of one connection's 30-second ticker
MaxInbox == 1      \* client messages not yet read by the handler

\* websocketHandler is between NewTicker and its return
Serving == wsock.pc \in {"select", "tick", "read"}

\* websocketHandler: upgrader.Upgrade; on an error the handler returns
wsUpgrade(ok) ==
  /\ initpc = "done"
  /\ wsock.pc = "idle"
  /\ wsock' = IF ok THEN [IdleWS EXCEPT !.pc = "initial", !.open = TRUE]
                    ELSE [IdleWS EXCEPT !.pc = "closed"]
  /\ UNCHANGED <<config, rpcClient, initpc, http>>
  /\ UNCHANGED clientVars

\* websocketHandler: the first WriteJSON, of getMockNetworkStats(); then
\* NewTicker. A write to a connection the client has left may still succeed.
wsInitial(ok) ==
  /\ wsock.pc = "initial"
  /\ wsock.open => ok
  /\ wsock' = IF ok
                THEN [wsock EXCEPT !.pc = "select", !.stats = "mock",
                                   !.initial = wsock.open]
                ELSE [wsock EXCEPT !.pc = "closed"]
  /\ UNCHANGED <<config, rpcClient, initpc, http>>
  /\ UNCHANGED clientVars

\* websocketHandler: the select; ticker.C is taken when a tick is waiting in
\* it, the default branch otherwise
wsSelect ==
  /\ wsock.pc = "select"
  /\ wsock' = IF wsock.tick = 1 THEN [wsock EXCEPT !.pc = "tick", !.tick = 0]
                                ELSE [wsock EXCEPT !.pc = "read"]
  /\ UNCHANGED <<config, rpcClient, initpc, http>>
  /\ UNCHANGED clientVars

\* websocketHandler, case <-ticker.C: the stats (mock in mock mode or when
\* GetNetworkInfo fails) and their WriteJSON
wsTick(out, ok) ==
  /\ wsock.pc = "tick"
  /\ out \in BridgeOutcomes
  /\ wsock.open => ok
  /\ wsock' = IF ok
                THEN [wsock EXCEPT !.pc = "select",
                        !.stats = IF MockMode \/ out # "ok" THEN "mock" ELSE "live",
                        !.updates = IF wsock.open THEN @ + 1 ELSE @]
                ELSE [wsock EXCEPT !.pc = "closed"]
  /\ UNCHANGED <<config, rpcClient, initpc, http>>
  /\ UNCHANGED clientVars

\* websocketHandler, default: conn.ReadMessage() blocks until the client
\* has sent a message or has left (then the handler returns)
wsRead ==
  /\ wsock.pc = "read"
  /\ \/ /\ wsock.inbox > 0
        /\ wsock' = [wsock EXCEPT !.pc = "select", !.inbox = @ - 1]
     \/ /\ wsock.inbox = 0
        /\ ~wsock.open
        /\ wsock' = [wsock EXCEPT !.pc = "closed"]
  /\ UNCHANGED <<config, rpcClient, initpc, http>>
  /\ UNCHANGED clientVars

\* the deferred ticker.Stop() and conn.Close()
wsReturn ==
  /\ wsock.pc = "closed"
  /\ wsock' = IdleWS
  /\ UNCHANGED <<config, rpcClient, initpc, http>>
  /\ UNCHANGED clientVars

\* 30 seconds pass: every other step of the handler takes far less, so
\* the ticker fires only while the handler is blocked in ReadMessage.
\* time.Ticker's channel holds one tick; a tick that finds it full is dropped.
wsTickerFire ==
  /\ wsock.pc = "read"
  /\ wsock.inbox = 0
  /\ wsock.open
  /\ wsock.ticks < MaxTicks
  /\ wsock' = [wsock EXCEPT !.tick = 1, !.ticks = @ + 1]
  /\ UNCHANGED <<config, rpcClient, initpc, http>>
  /\ UNCHANGED clientVars

\* the browser sends a message on the socket
wsClientSend ==
  /\ wsock.pc # "idle"
  /\ wsock.open
  /\ wsock.inbox < MaxInbox
  /\ wsock' = [wsock EXCEPT !.inbox = @ + 1]
  /\ UNCHANGED <<config, rpcClient, initpc, http>>
  /\ UNCHANGED clientVars

\* the browser closes the socket
wsClientClose ==
  /\ wsock.pc # "idle"
  /\ wsock.open
  /\ wsock' = [wsock EXCEPT !.open = FALSE]
  /\ UNCHANGED <<config, rpcClient, initpc, http>>
  /\ UNCHANGED clientVars

NextPanel ==
  \/ initRPCClientStart
  \/ \E ok \in BOOLEAN : initRPCClientConnect(ok)
  \/ \E out \in BridgeOutcomes : initRPCClientLog(out)
  \/ \E ep \in Endpoints, role \in Roles, valid \in BOOLEAN :
       httpRequest(ep, role, valid)
  \/ httpRequireRole
  \/ \E out \in BridgeOutcomes : httpHandler(out)
  \/ httpDone
  \/ \E ok \in BOOLEAN : wsUpgrade(ok)
  \/ \E ok \in BOOLEAN : wsInitial(ok)
  \/ wsSelect
  \/ \E out \in BridgeOutcomes, ok \in BOOLEAN : wsTick(out, ok)
  \/ wsRead
  \/ wsReturn
  \/ wsTickerFire
  \/ wsClientSend
  \/ wsClientClose

SpecPanel == InitPanel /\ [][NextPanel]_vars

\* ---- properties ----

\* the calls that have taken an ID and not yet handed back their goroutine
Running == {p \in Callers : call[p].pc # "idle"}
\* the calls blocked in the select of call
Waiting == {p \in Callers : call[p].pc = "waiting"}

\* C1: the IDs of concurrently running calls are pairwise distinct, and a
\* registration never lands on an ID that is still in the pending table.
C1_DistinctIDs ==
  /\ [](\A p, q \in Running : p # q => call[p].id # call[q].id)
  /\ [][reqID' # reqID => reqID' \notin DOMAIN pending]_vars

C1_Witness ==
  /\ Cardinality(Waiting) = 2
  /\ Cardinality(DOMAIN pending) = 2
  /\ \A p \in Waiting : call[p].id \in DOMAIN pending

\* C2: the pending call of an ID is resolved by at most one of response
\* delivery, timeout, cancellation and drain; no step sends on a closed
\* channel, closes a channel twice or delivers a second response.
C2_AtMostOneResolution ==
  /\ \A i \in IDs : Cardinality(resolvers[i]) <= 1
  /\ fault = {}

\* a call timed out after the receive goroutine had claimed its ID and
\* delivered the response: the timeout's delete was the second attempt
C2_Witness ==
  \E p \in Callers :
    /\ call[p].pc = "done"
    /\ call[p].out = "timeout"
    /\ resolvers[call[p].id] = {"response"}

\* C3: a call that receives a response receives the one that carries its
\* own ID, whatever the order in which responses arrive.
C3_OwnResponse ==
  /\ \A p \in Callers :
       call[p].pc = "done" /\ call[p].out \in {"ok", "rpc_error", "decode_error"}
         => call[p].got = call[p].id
  /\ \A i \in IDs : chans[i].buf # <<>> => Head(chans[i].buf).id = i

\* the call with the larger ID already has its own response while the call
\* with the smaller ID, registered before it, is still waiting for its own
C3_Witness ==
  \E p, q \in Callers :
    /\ call[p].id < call[q].id
    /\ call[p].pc = "waiting"
    /\ call[p].id \in DOMAIN pending
    /\ call[q].pc = "done"
    /\ call[q].out = "ok"
    /\ call[q].got = call[q].id


\* the IDs whose pending call Disconnect drained
Drained(p) == "drain" \in resolvers[call[p].id]

\* C4: a call that was waiting for its response when Disconnect drained the
\* pending table returns an error: it neither faults nor returns success.
C4_DrainedCallsGetError ==
  \A p \in Callers :
    call[p].pc = "done" /\ call[p].nw = 1 /\ Drained(p)
      => call[p].out \in {"conn_error", "timeout", "cancelled"}

\* C5: once the receive goroutine has ended on a closed transport or a
\* failed read, the client is disconnected and no call is left pending.
C5_LoopExitTearsDown ==
  \A g \in Gens :
    loop[g].pc = "exited" /\ loop[g].why \in {"readerr", "decode"}
      => ~IsConnected /\ DOMAIN pending = {}

\* C6: a frame that does not decode never ends a receive goroutine.
C6_DecodeFailureSkipped ==
  \A g \in Gens : loop[g].why # "decode"

\* C7: the first request frame written to a connection is the login call.
C7_LoginFirst ==
  \A g \in Gens : first[g] \in {"none", "user.login"}

\* C8: a call that has returned a timeout has no entry in the pending table
\* and has received nothing; no other call receives the response to its ID;
\* and a response that finds no entry is dropped: the receive goroutine goes
\* back to reading and changes neither the table nor any channel.
C8_TimeoutFreesID ==
  /\ [](\A p \in Callers :
          call[p].pc = "done" /\ call[p].out = "timeout"
            => /\ call[p].id \notin DOMAIN pending
               /\ call[p].got = 0
               /\ \A q \in Callers \ {p} : call[q].got # call[p].id)
  /\ [](\A g \in Gens : loop[g].why # "panic")
  /\ [][\A g \in Gens :
          /\ loop[g].pc = "claim"
          /\ loop'[g] # loop[g]
          /\ ~Exists(pending, loop[g].resp.id)
          => /\ loop'[g].pc = "top"
             /\ pending' = pending
             /\ chans' = chans
             /\ call' = call]_vars

\* the response to a timed-out call has arrived after the timeout and is
\* about to be looked up
C8_Witness ==
  \E p \in Callers, g \in Gens :
    /\ call[p].pc = "done"
    /\ call[p].out = "timeout"
    /\ call[p].nw = 1
    /\ resolvers[call[p].id] = {"timeout"}
    /\ loop[g].pc = "claim"
    /\ loop[g].resp.id = call[p].id

\* C9: a call that times out or is cancelled removes its own entry only:
\* the transport handle, the transports, the ID counter, every other entry
\* of the table with its channel, and every other call stay as they were.
C9_AbandonFrame ==
  [][\A p \in Callers :
       /\ call[p].pc = "waiting"
       /\ call'[p].pc = "done"
       /\ call'[p].out \in {"timeout", "cancelled"}
       => /\ conn' = conn
          /\ socketConn' = socketConn
          /\ transport' = transport
          /\ reqID' = reqID
          /\ call[p].id \notin DOMAIN pending'
          /\ \A i \in DOMAIN pending \ {call[p].id} :
               i \in DOMAIN pending' /\ pending'[i] = pending[i]
          /\ chans' = chans
          /\ \A q \in Callers \ {p} : call'[q] = call[q]]_vars

\* one call has been cancelled or has timed out while another call is
\* still waiting with its entry in the table
C9_Witness ==
  \E p, q \in Callers :
    /\ call[p].pc = "done"
    /\ call[p].out \in {"timeout", "cancelled"}
    /\ resolvers[call[p].id] \in {{"timeout"}, {"cancelled"}}
    /\ call[q].pc = "waiting"
    /\ call[q].id \in DOMAIN pending

\* C10: a call made while c.conn is nil returns "not connected" at once,
\* writes no frame and registers nothing.
C10_NotConnected ==
  /\ [](\A p \in Callers :
          call[p].pc = "done" /\ call[p].out = "not_connected"
            => call[p].nw = 0 /\ call[p].id \notin DOMAIN pending)
  /\ [][\A p \in Callers :
          call[p].pc = "idle" /\ call'[p].pc # "idle" /\ conn = Nil
            => /\ call'[p].pc = "done"
               /\ call'[p].out = "not_connected"
               /\ pending' = pending
               /\ chans' = chans
               /\ first' = first
               /\ transport' = transport]_vars

\* a call made after Disconnect has returned "not connected"
C10_Witness ==
  \E p \in Callers :
    /\ kind = "ws"
    /\ transport # <<>>
    /\ conn = Nil
    /\ call[p].pc = "done"
    /\ call[p].out = "not_connected"
    /\ call[p].id > 1

\* C11: a call whose write failed removes its own entry from the pending
\* table, leaves every other entry and every channel alone, and returns the
\* send error straight away: it never enters the select, so it receives
\* nothing and neither times out nor is cancelled.
C11_SendFailureUnregisters ==
  /\ [](\A p \in Callers :
          call[p].pc = "done" /\ call[p].out = "send_error"
            => /\ call[p].id \notin DOMAIN pending
               /\ call[p].nw = 0
               /\ call[p].got = 0
               /\ resolvers[call[p].id] \cap {"timeout", "cancelled"} = {})
  /\ [][\A p \in Callers :
          call[p].pc = "senderr" /\ call'[p] # call[p]
            => /\ call'[p].pc = "done"
               /\ call'[p].out = "send_error"
               /\ call[p].id \notin DOMAIN pending'
               /\ \A i \in DOMAIN pending \ {call[p].id} :
                    i \in DOMAIN pending' /\ pending'[i] = pending[i]
               /\ chans' = chans]_vars

\* the peer closed the connection, one call's write failed and it returned
\* the send error, while another call sent earlier still waits with its entry
C11_Witness ==
  \E p, q \in Callers :
    /\ conn # Nil
    /\ transport[conn] = "closed"
    /\ call[p].pc = "done"
    /\ call[p].out = "send_error"
    /\ call[q].pc = "waiting"
    /\ call[q].id \in DOMAIN pending

\* C12: a call writes at most one request frame: none when it returns
\* "not connected" or when its write fails or faults, one when it reaches
\* the select; once the write is over, whatever the outcome (timeout,
\* cancellation, send error, RPC error, success), the call only returns:
\* it writes nothing more and its goroutine goes back to idle.
C12_OneFramePerCall ==
  /\ [](\A p \in Callers :
          /\ call[p].nw <= 1
          /\ call[p].pc = "done" /\ call[p].out = "not_connected" => call[p].nw = 0
          /\ \/ call[p].pc = "senderr"
             \/ call[p].out \in {"send_error", "panic_nilconn", "panic_write"}
             => call[p].nw = 0
          /\ \/ call[p].pc = "waiting"
             \/ call[p].out \in {"ok", "rpc_error", "decode_error", "timeout",
                                 "cancelled", "panic"}
             => call[p].nw = 1)
  /\ [][\A p \in Callers :
          call[p].pc \in {"waiting", "senderr"} /\ call'[p] # call[p]
            => /\ call'[p].pc = "done"
               /\ call'[p].nw = call[p].nw
               /\ first' = first]_vars
  /\ [][\A p \in Callers :
          call[p].pc = "done" /\ call'[p] # call[p] => call'[p] = IdleCall]_vars

\* one call has timed out after writing its one frame, another has returned
\* the send error after its failed write
C12_Witness ==
  \E p, q \in Callers :
    /\ call[p].pc = "done"
    /\ call[p].out = "timeout"
    /\ call[p].nw = 1
    /\ call[q].pc = "done"
    /\ call[q].out = "send_error"
    /\ call[q].nw = 0

\* C13: a call whose frame was sent returns one of: the outcome of the
\* matching response, the timeout error, the caller's cancellation error,
\* or a connection error on teardown; it does not end in a fault.
C13_SentCallsReturn ==
  \A p \in Callers :
    call[p].pc = "done" /\ call[p].nw = 1
      => call[p].out \in {"ok", "rpc_error", "decode_error", "timeout",
                          "cancelled", "conn_error"}

\* C14: once Disconnect has returned, and until a Connect succeeds, the
\* client holds no transport handle of either kind, the connection that was
\* in use is closed, the pending table is empty, IsConnected reports false,
\* and every call that starts returns "not connected".
C14_DisconnectReleases ==
  /\ [](torn =>
          /\ conn = Nil
          /\ socketConn = Nil
          /\ transport # <<>> => transport[Len(transport)] = "closed"
          /\ DOMAIN pending = {}
          /\ ~IsConnected)
  /\ [][\A p \in Callers :
          torn /\ call[p].pc = "idle" /\ call'[p].pc # "idle"
            => call'[p].pc = "done" /\ call'[p].out = "not_connected"]_vars

\* C15: a Disconnect of a client that has already been disconnected, or that
\* has never connected, changes nothing in the client, the transports, the
\* channels or the calls, and raises no fault.
C15_DisconnectIdempotent ==
  [][Disconnect /\ (torn \/ transport = <<>>)
       => UNCHANGED <<kind, conn, socketConn, isSocket, reqID, pending, chans,
                      transport, loop, call, first, rleak, connectResult,
                      resolvers, fault>>]_vars

\* Disconnect has returned on a WebSocket client that had a call waiting;
\* no call holds the read lock, so Disconnect can run again from this state,
\* and this is the state it leads to
C15_Witness ==
  /\ kind = "ws"
  /\ transport # <<>>
  /\ torn
  /\ NoReaders
  /\ \E p \in Callers : call[p].pc = "waiting" /\ Drained(p)

\* C16: a Connect whose dial fails returns the error and leaves the client
\* as it was: no handle of either kind is stored, no connection and no
\* receive goroutine is added, and a client that was not connected is still
\* not connected.
C16_FailedConnectStaysDisconnected ==
  [][Connect(FALSE)
       => /\ connectResult' = "failed"
          /\ UNCHANGED <<conn, socketConn, isSocket, transport, loop, pending>>
          /\ ~IsConnected => ~IsConnected']_vars

\* Connect has failed, the client holds no handle and runs no receive
\* goroutine, and a call made afterwards has returned "not connected"
C16_Witness ==
  /\ connectResult = "failed"
  /\ conn = Nil
  /\ socketConn = Nil
  /\ loop = <<>>
  /\ ~IsConnected
  /\ \E p \in Callers : call[p].pc = "done" /\ call[p].out = "not_connected"

\* C17: while the last Connect has succeeded and Disconnect has not been
\* called since, whichever transport was dialed, IsConnected reports true
\* and a call that starts passes the "not connected" check.
C17_ConnectedIsUsable ==
  /\ [](connectResult = "ok" /\ ~torn => IsConnected)
  /\ [][\A p \in Callers :
          /\ connectResult = "ok" /\ ~torn
          /\ call[p].pc = "idle" /\ call'[p].pc # "idle"
          => call'[p].pc = "registered"]_vars

\* C18: a response whose ID is not in the pending table is discarded by
\* either receive goroutine: the goroutine goes back to reading, and the
\* table, every channel, every call and the fault record stay as they were.
C18_UnmatchedDiscarded ==
  [][\A g \in Gens :
       /\ loop'[g] # loop[g]
       /\ \/ loop[g].pc = "claim" /\ ~Exists(pending, loop[g].resp.id)
          \/ loop[g].pc = "deliver" /\ loop[g].ch = Nil
       => /\ loop'[g].pc \in {"top", "scan"}
          /\ loop'[g].ch = Nil
          /\ UNCHANGED <<pending, chans, call, resolvers, fault, conn,
                         socketConn, transport>>]_vars

\* a response carrying an ID that no call has been given is about to be
\* looked up while a call waits with its entry in the table
C18_Witness ==
  \E g \in Gens, p \in Callers :
    /\ loop[g].pc = "claim"
    /\ loop[g].resp.id > reqID
    /\ ~Exists(pending, loop[g].resp.id)
    /\ call[p].pc = "waiting"
    /\ call[p].id \in DOMAIN pending

\* C19: a call that receives a response carrying an error object returns
\* the RPC error and leaves the caller's result untouched, also when the
\* response carries a result as well; a call that receives a response
\* carrying only a result returns success, with the result unmarshaled
\* into the caller's structure when the caller gave one.
C19_ErrorObjectWins ==
  [][\A p \in Callers :
       call[p].pc = "waiting" /\ call'[p].pc = "done" /\ call'[p].got # 0
         => LET resp == Head(chans[call[p].id].buf) IN
              /\ resp.kind \in {"error", "both"}
                   => /\ call'[p].out = "rpc_error"
                      /\ call'[p].res = "untouched"
              /\ resp.kind = "result"
                   => /\ call'[p].out = "ok"
                      /\ call'[p].res = IF HasResult(call[p].method)
                                          THEN "written" ELSE "untouched"]_vars

\* the response delivered to a waiting call that gave a result pointer
\* carries the call's ID and both an error and a result; the call's next
\* step is the receive
C19_Witness ==
  \E p \in Callers :
    /\ HasResult(call[p].method)
    /\ call[p].pc = "waiting"
    /\ call[p].res = "untouched"
    /\ chans[call[p].id].buf # <<>>
    /\ Head(chans[call[p].id].buf) = [id |-> call[p].id, kind |-> "both"]

\* C20: a call that receives a response carrying neither a result nor an
\* error returns success and leaves the caller's result untouched.
C20_EmptySuccess ==
  [][\A p \in Callers :
       call[p].pc = "waiting" /\ call'[p].pc = "done" /\ call'[p].got # 0
         => LET resp == Head(chans[call[p].id].buf) IN
              resp.kind = "empty"
                => /\ call'[p].out = "ok"
                   /\ call'[p].res = "untouched"]_vars

\* a call that gave a result pointer has received its response and returned
\* success with its result untouched: the response carried nothing
C20_Witness ==
  \E p \in Callers :
    /\ HasResult(call[p].method)
    /\ call[p].pc = "done"
    /\ call[p].got = call[p].id
    /\ call[p].out = "ok"
    /\ call[p].res = "untouched"

\* C24: no two calls are inside c.conn.WriteJSON at the same time.
C24_WritesSerialized ==
  Cardinality({p \in Callers : call[p].pc = "writing"}) <= 1

\* C28: no call writes through a nil c.conn: a call that registered before
\* Disconnect and writes after it returns an error instead of faulting.
C28_NoNilConnWrite ==
  \A p \in Callers : call[p].out # "panic_nilconn"

\* C26: the ID counter starts at 0 and never goes down, whatever happens to
\* the client (failed calls, Disconnect, Connect); every call that starts
\* takes the counter's value plus one, so the first call gets 1 and each
\* later call an ID larger than every ID given before.
C26_IDsIncrease ==
  /\ reqID = 0
  /\ [](\A p \in Callers : call[p].id <= reqID)
  /\ [][reqID' >= reqID]_vars
  /\ [][\A p \in Callers :
          call[p].pc = "idle" /\ call'[p].pc # "idle"
            => /\ call'[p].id = reqID + 1
               /\ reqID' = reqID + 1
               /\ \A q \in Callers \ {p} : call[q].id < call'[p].id]_vars

\* the first connection is closed, Connect has succeeded a second time, and
\* the call waiting on the second connection holds the largest ID given so
\* far, after every earlier call has returned
C26_Witness ==
  /\ transport = <<"closed", "open">>
  /\ conn = 2
  /\ call[1].pc = "waiting"
  /\ call[1].nw = 1
  /\ call[1].id = reqID
  /\ reqID = MaxReqID

\* C23: a receive goroutine reads only from the connection it was started
\* for, and no two receive goroutines read from the same connection.
C23_OneLoopPerConnection ==
  /\ \A g \in Gens : loop[g].pc \in {"read", "scan"} => loop[g].c = g
  /\ \A g, h \in Gens :
       /\ g # h
       /\ loop[g].pc \in {"read", "scan"}
       /\ loop[h].pc \in {"read", "scan"}
       => loop[g].c # loop[h].c

\* C25: a call registers its ID before it writes its frame: the write
\* starts only from a registered call, and whenever a receive goroutine
\* finds no entry for the ID of a call that is writing or has written its
\* frame, the entry was there and has been removed by a resolution
\* (a response already claimed, a timeout, a cancellation or a drain).
C25_RegisteredBeforeSend ==
  /\ [][\A p \in Callers :
          call[p].pc = "idle" /\ call'[p].pc = "registered"
            => Exists(pending', call'[p].id)]_vars
  /\ [][\A p \in Callers :
          call[p].pc # "writing" /\ call'[p].pc = "writing"
            => call[p].pc = "registered"]_vars
  /\ [][\A g \in Gens, p \in Callers :
          /\ loop[g].pc = "claim"
          /\ loop'[g] # loop[g]
          /\ call[p].pc \in {"writing", "waiting"}
          /\ loop[g].resp.id = call[p].id
          /\ ~Exists(pending, call[p].id)
          => \/ resolvers[call[p].id] # {}
             \/ \E h \in Gens : loop[h].ch = call[p].id]_vars

\* the response to a call that has written its frame has been read and is
\* about to be looked up, and the call's entry is in the table
C25_Witness ==
  \E g \in Gens, p \in Callers :
    /\ call[p].pc = "waiting"
    /\ call[p].nw = 1
    /\ loop[g].pc = "claim"
    /\ loop[g].resp.id = call[p].id
    /\ Exists(pending, call[p].id)
    /\ resolvers[call[p].id] = {}

\* C27: a call that has returned has no entry in the pending table.
C27_ReturnedNotPending ==
  \A p \in Callers : call[p].pc = "done" => ~Exists(pending, call[p].id)


\* C21: when the bridge call of a request fails, whatever the error and
\* whichever of the seven bridge-backed endpoints it is, the handler answers
\* 200 with the static fallback payload, never an error status.
C21_BridgeErrorFallsBack ==
  http.pc = "done" /\ http.bridge = 1 /\ http.err # "ok"
    => http.status = 200 /\ http.body = "mock"

\* C22: once initRPCClient has finished, mock mode is off only with a
\* connected client; without a URL or a user name, or after a failed Connect,
\* mock mode is on; mock mode on means there is no client, and then a request
\* and a /ws tick are answered with mock data and no bridge call.
C22_MockOffOnlyIfConnected ==
  /\ initpc = "done" =>
       /\ ~config.UseMockData => rpcClient = "client" /\ IsConnected
       /\ config.url = "" \/ config.username = "" \/ connectResult = "failed"
            => config.UseMockData
       /\ config.UseMockData => rpcClient = "nil"
  /\ http.pc = "done" /\ config.UseMockData /\ http.status = 200
       => http.body = "mock" /\ http.bridge = 0
  /\ Serving /\ config.UseMockData => wsock.stats = "mock"


\* C29: a request gets past requireRole exactly when its role is one of the
\* route's allowed roles or is "admin"; a handler of kick or ban runs, and
\* calls the bridge, only for role "moderator" or "admin"; a request that is
\* turned away gets 403 and no bridge call.
C29_RoleGuard ==
  LET allowed == {AllowedRoles(http.ep)[i] : i \in DOMAIN AllowedRoles(http.ep)}
      mayPass == http.role \in allowed \/ http.role = "admin"
      passed  == http.pc = "handler" \/ (http.pc = "done" /\ http.status # 403)
      refused == http.pc = "done" /\ http.status = 403
  IN /\ passed => mayPass
     /\ refused => ~mayPass /\ http.bridge = 0 /\ http.body = "error"
     /\ http.ep \in {"kick", "ban"} /\ (passed \/ http.bridge = 1)
          => http.role \in {"moderator", "admin"}

\* a request with role "user" for kick or ban has been answered 403 while a
\* handler would have called the bridge
C29_Witness ==
  /\ http.pc = "done" /\ http.ep \in {"kick", "ban"} /\ http.role = "user"
  /\ http.status = 403 /\ http.bridge = 0
  /\ ~MockMode


\* C30: while a /ws connection is open the client has received the initial
\* networkStats message, and every tick of the ticker has been followed by
\* an update before the next tick: at most the latest tick is still to be
\* served, whether or not the client has sent anything.
C30_UpdateOnEveryTick ==
  Serving /\ wsock.open
    => wsock.initial /\ wsock.ticks <= wsock.updates + 1

====
